---- MODULE Spec2Model ----
(***************************************************************************)
(* Single-byte legacy encodings: SingleByteDecoder and SingleByteEncoder   *)
(* of src/single_byte.rs.                                                  *)
(*                                                                         *)
(* The decoder's conversion loop is the expansion of decoder_functions!    *)
(* around the body of lines 42-53; the macro and the source/destination    *)
(* handles it uses live in other files of the crate, so the loop skeleton  *)
(* and the handle operations are written from the specification, while the *)
(* per-byte body, the size formulas, reset and the whole encoder are       *)
(* written from single_byte.rs.                                            *)
(***************************************************************************)
EXTENDS Integers, Sequences, FiniteSets, TLC

\* ------------------------------------------------------------------ bounds
\* Longest caller input enumerated exhaustively over SampleBytes.
MaxLen == 3
\* Largest destination capacity a caller picks freely.
MaxCap == 4
\* Width of the machine word (usize) of the scaled-down target.  The
\* arithmetic below is the same for 32 and 64 bits; only the width differs.
UsizeBits == 4

\* --------------------------------------------------------- program constants
\* `if b < 0x80` and `b as usize - 0x80usize`.
AsciiLimit == 128
\* `[u16; 128]`.
TableLen == 128

UsizeMax == 2 ^ UsizeBits - 1
\* A slice never holds more than isize::MAX bytes.
IsizeMax == 2 ^ (UsizeBits - 1) - 1

\* A destination cell the call has not written (the caller's old content).
Untouched == 0 - 1
\* The value "returned" by a call that panicked instead of returning.
Panicked == 0 - 1

\* ------------------------------------------------------------ mapping tables
\* An ISO-8859-7-like table: 0x80 -> U+20AC, 0xA0 -> U+00A0, Greek letters
\* from 0xB4 upward, and 0xAA, 0xAE, 0xD2, 0xFF unmapped.
TableGreekLike ==
    [i \in 0 .. TableLen - 1 |->
        LET b == i + AsciiLimit
        IN  IF b \in {170, 174, 210, 255} THEN 0
            ELSE IF b = 128 THEN 8364
            ELSE IF b < 180 THEN b
            ELSE b + 720]

\* A table with every byte mapped: Latin-1 with 0x80 -> U+20AC.
TableLatinLike ==
    [i \in 0 .. TableLen - 1 |-> IF i = 0 THEN 8364 ELSE i + AsciiLimit]

\* The static tables, by name; a decoder holds a reference to one of them.
Encodings == {"greek_like", "latin_like"}

static_table(name) ==
    IF name = "greek_like" THEN TableGreekLike
    ELSE IF name = "latin_like" THEN TableLatinLike
    ELSE [i \in 0 .. TableLen - 1 |-> 0]

\* 0x41, 0x7F (ASCII), 0x80 (three UTF-8 units), 0xA0 (two UTF-8 units),
\* 0xAA (unmapped in the Greek-like table).
SampleBytes == {65, 127, 128, 160, 170}

RECURSIVE SeqsUpTo(_, _)
SeqsUpTo(S, n) ==
    IF n = 0 THEN {<<>>}
    ELSE LET shorter == SeqsUpTo(S, n - 1)
         IN  shorter \cup {Append(s, x) : s \in {t \in shorter : Len(t) = n - 1}, x \in S}

\* Every input of at most MaxLen sample bytes.
ShortInputs == SeqsUpTo(SampleBytes, MaxLen)
\* Inputs of every length a slice can have, one repeated byte each.
LongInputs == {[i \in 1 .. n |-> b] : n \in 0 .. IsizeMax, b \in SampleBytes}
\* One-byte inputs: the sample bytes and 0x00, 0xC8, 0xFF.
ByteInputs == {<<b>> : b \in SampleBytes \cup {0, 200, 255}}

\* ---------------------------------------------------------------- the state
VARIABLES
    encoding,         \* which &'static [u16; 128] was handed to new()
    overflow_checks,  \* build profile: does integer overflow panic (else wrap)
    decoder,          \* the SingleByteDecoder instance
    encoder,          \* the SingleByteEncoder instance
    form,             \* destination form of the conversion job: "utf16" | "utf8"
    input,            \* the caller's whole input
    total,            \* bytes of input the caller has been told were consumed
    out,              \* concatenation of the units written by the calls so far
    last              \* the last call made and what it returned

vars == <<encoding, overflow_checks, decoder, encoder, form, input, total, out, last>>

\* ------------------------------------------------------------ constructors
SingleByteDecoder_new(data) == [table |-> data]

SingleByteEncoder_new(data) == [table |-> data]

\* ------------------------------------------------------------------- reset
reset_clears_table(self) == [table |-> "none"]

\* pub fn reset(&mut self) {}
reset(self) == self

\* ------------------------------------------------------- decoder size formulas
\* usize multiplication: exact when it fits, otherwise a panic (overflow
\* checks on) or the product modulo 2^UsizeBits (overflow checks off).
usize_mul(a, b) ==
    IF a * b <= UsizeMax THEN a * b
    ELSE IF overflow_checks THEN Panicked
    ELSE (a * b) % (UsizeMax + 1)

max_utf16_buffer_length(self, byte_length) == byte_length

max_utf8_buffer_length(self, byte_length) == usize_mul(byte_length, 3)

max_utf8_buffer_length_with_replacement(self, byte_length) == usize_mul(byte_length, 3)

\* ------------------------------------------------------------ handles (spec)
\* Is there an unread byte at the source position?
check_available(src, pos) == pos < Len(src)

\* Room for one Basic Multilingual Plane code point: one UTF-16 unit, or the
\* three UTF-8 units of the worst case.
check_space_bmp(frm, dst, written) ==
    IF frm = "utf16" THEN written + 1 <= Len(dst) ELSE written + 3 <= Len(dst)

\* The count of bytes consumed as seen through the handle of the byte just
\* read: the bytes before that byte.
unread_handle_consumed(pos_after_read) == pos_after_read - 1

\* The units a code point below 0x80 is written as.
write_ascii(frm, b) == <<b>>

\* The units a code point in 0x80 .. 0xFFFF is written as.
write_bmp_excl_ascii(frm, bmp) ==
    IF frm = "utf16" THEN <<bmp>>
    ELSE IF bmp < 2048 THEN <<192 + (bmp \div 64), 128 + (bmp % 64)>>
    ELSE <<224 + (bmp \div 4096), 128 + ((bmp \div 64) % 64), 128 + (bmp % 64)>>

\* dst with `units` stored from index written + 1 on.
store(dst, written, units) ==
    [i \in 1 .. Len(dst) |->
        IF i > written /\ i <= written + Len(units) THEN units[i - written] ELSE dst[i]]

\* ------------------------------------------------------ the per-byte body
decode_body_no_malformed_check(self, frm, b) ==
    IF b < AsciiLimit
    THEN [kind |-> "write", units |-> write_ascii(frm, b)]
    ELSE [kind |-> "write", units |-> write_bmp_excl_ascii(frm, static_table(self.table)[b - AsciiLimit])]

decode_body_ascii_for_all(self, frm, b) ==
    IF b < AsciiLimit \/ static_table(self.table)[b - AsciiLimit] # 0
    THEN [kind |-> "write", units |-> write_ascii(frm, b)]
    ELSE [kind |-> "return_malformed", units |-> <<>>]

decode_body_skips_unmapped(self, frm, b) ==
    IF b < AsciiLimit
    THEN [kind |-> "write", units |-> write_ascii(frm, b)]
    ELSE LET mapped == static_table(self.table)[b - AsciiLimit]
         IN  IF mapped = 0
             THEN [kind |-> "write", units |-> <<>>]
             ELSE [kind |-> "write", units |-> write_bmp_excl_ascii(frm, mapped)]

\* Lines 42-53: ASCII is written unchanged; a zero table entry returns
\* Malformed(1); any other entry is written as a BMP code point.
decode_body(self, frm, b) ==
    IF b < AsciiLimit
    THEN [kind |-> "write", units |-> write_ascii(frm, b)]
    ELSE LET mapped == static_table(self.table)[b - AsciiLimit]
         IN  IF mapped = 0
             THEN [kind |-> "return_malformed", units |-> <<>>]
             ELSE [kind |-> "write", units |-> write_bmp_excl_ascii(frm, mapped)]

destination_check_none(frm, dst, written) == TRUE

\* Line 61: the destination check this decoder passes to the loop.
destination_check(frm, dst, written) == check_space_bmp(frm, dst, written)

\* ------------------------------------------------------ the conversion loop
RECURSIVE decode_loop(_, _, _, _, _, _)
decode_loop(self, frm, src, dst, pos, written) ==
    IF ~check_available(src, pos)
    THEN [result |-> "InputEmpty", malformed_len |-> 0,
          consumed |-> pos, written |-> written, dst |-> dst]
    ELSE IF ~destination_check(frm, dst, written)
    THEN [result |-> "OutputFull", malformed_len |-> 0,
          consumed |-> pos, written |-> written, dst |-> dst]
    ELSE LET b == src[pos + 1]
             step == decode_body(self, frm, b)
         IN  IF step.kind = "return_malformed"
             THEN [result |-> "Malformed", malformed_len |-> 1,
                   consumed |-> unread_handle_consumed(pos + 1),
                   written |-> written, dst |-> dst]
             ELSE IF written + Len(step.units) > Len(dst)
             THEN \* a write past the end of the slice panics
                  [result |-> "Panic", malformed_len |-> 0,
                   consumed |-> pos, written |-> written, dst |-> dst]
             ELSE decode_loop(self, frm, src, store(dst, written, step.units),
                              pos + 1, written + Len(step.units))

\* decode_to_utf16 / decode_to_utf8; `last_chunk` is the `last` argument,
\* which this decoder has no use for (its end-of-input block is empty).
decode(self, frm, src, dst, last_chunk) == decode_loop(self, frm, src, dst, 0, 0)

\* --------------------------------------------------------------- the caller
BlankBuffer(cap) == [i \in 1 .. cap |-> Untouched]

Unread == SubSeq(input, total + 1, Len(input))

DecodeOpOf(frm) == IF frm = "utf16" THEN "decode_to_utf16" ELSE "decode_to_utf8"

\* One decode call on the unread tail of the input with a fresh buffer.
DecodeCall(cap, last_chunk) ==
    LET src == Unread
        r == decode(decoder, form, src, BlankBuffer(cap), last_chunk)
    IN  /\ last' = [op |-> DecodeOpOf(form), src |-> src, cap |-> cap,
                    result |-> r.result, malformed_len |-> r.malformed_len,
                    consumed |-> r.consumed, written |-> r.written, dst |-> r.dst]
        /\ total' = total + r.consumed
        /\ out' = out \o SubSeq(r.dst, 1, r.written)
        /\ UNCHANGED <<encoding, overflow_checks, decoder, encoder, form, input>>

DecodeToUtf16 ==
    /\ form = "utf16"
    /\ \E cap \in 0 .. MaxCap, last_chunk \in BOOLEAN : DecodeCall(cap, last_chunk)

DecodeToUtf8 ==
    /\ form = "utf8"
    /\ \E cap \in 0 .. MaxCap, last_chunk \in BOOLEAN : DecodeCall(cap, last_chunk)

Reset ==
    /\ decoder' = reset(decoder)
    /\ last' = [op |-> "reset"]
    /\ UNCHANGED <<encoding, overflow_checks, encoder, form, input, total, out>>

InitWith(inputs, forms, profiles) ==
    /\ encoding \in Encodings
    /\ overflow_checks \in profiles
    /\ decoder = SingleByteDecoder_new(encoding)
    /\ encoder = SingleByteEncoder_new(encoding)
    /\ form \in forms
    /\ input \in inputs
    /\ total = 0
    /\ out = <<>>
    /\ last = [op |-> "new"]

Init == InitWith(ShortInputs, {"utf16", "utf8"}, {FALSE})

Next == DecodeToUtf16 \/ DecodeToUtf8 \/ Reset

Spec == Init /\ [][Next]_vars

\* ------------------------------------------------- vocabulary of the claims
IsDecode(call) == call.op \in {"decode_to_utf16", "decode_to_utf8"}

\* Byte b has a Unicode equivalent under the encoding's table.
IsMapped(b) == b < AsciiLimit \/ static_table(encoding)[b - AsciiLimit] # 0

\* The code point byte b stands for (b itself below 0x80, else its table entry).
CodePointOf(b) == IF b < AsciiLimit THEN b ELSE static_table(encoding)[b - AsciiLimit]

NoUnmapped(bytes) == \A i \in 1 .. Len(bytes) : IsMapped(bytes[i])

\* Number of units the first n bytes of `bytes` (all mapped) take in form frm.
RECURSIVE UnitsBefore(_, _, _)
UnitsBefore(frm, bytes, n) ==
    IF n = 0 THEN 0
    ELSE UnitsBefore(frm, bytes, n - 1)
         + (IF frm = "utf16" \/ CodePointOf(bytes[n]) < AsciiLimit THEN 1
            ELSE IF CodePointOf(bytes[n]) < 2048 THEN 2 ELSE 3)

\* The loop gets as far as reading byte k of the call's input: every byte
\* before it is mapped and the destination had room each time.
Meets(call, k) ==
    /\ k \in 1 .. Len(call.src)
    /\ \A i \in 1 .. k - 1 : IsMapped(call.src[i])
    /\ UnitsBefore(form, call.src, k - 1) + (IF form = "utf16" THEN 1 ELSE 3) <= call.cap

C2_MappedInputDecodesFully ==
    (last.op = "decode_to_utf16" /\ NoUnmapped(last.src) /\ last.cap >= Len(last.src)) =>
        /\ last.result = "InputEmpty"
        /\ last.consumed = Len(last.src)
        /\ last.written = Len(last.src)
        /\ \A i \in 1 .. Len(last.src) :
              last.dst[i] = IF last.src[i] < 128 THEN last.src[i]
                            ELSE static_table(encoding)[last.src[i] - 128]

C2_Witness ==
    /\ last.op = "decode_to_utf16"
    /\ last.src = <<65, 128, 160>>
    /\ last.cap >= 3
    /\ last.result = "InputEmpty"
    /\ last.dst[2] = 8364

\* C5: with a destination of capacity 0 a decode call returns OutputFull
\* (non-empty input, whatever its first byte) or InputEmpty (empty input),
\* with consumed = 0 and written = 0.
C5_ZeroCapacity ==
    (IsDecode(last) /\ last.cap = 0) =>
        /\ last.result = IF Len(last.src) = 0 THEN "InputEmpty" ELSE "OutputFull"
        /\ last.consumed = 0
        /\ last.written = 0

C5_Witness ==
    /\ IsDecode(last)
    /\ last.cap = 0
    /\ Len(last.src) > 0
    /\ ~IsMapped(last.src[1])
    /\ last.result = "OutputFull"

\* C10: every UTF-16 decode call has consumed <= input length, written <=
\* capacity, exactly the first `written` cells of the destination written,
\* and written = the number of consumed bytes that are ASCII or mapped
\* (so written = consumed on InputEmpty and OutputFull).
C10_CountInvariant ==
    last.op = "decode_to_utf16" =>
        /\ last.consumed \in 0 .. Len(last.src)
        /\ last.written \in 0 .. last.cap
        /\ Len(last.dst) = last.cap
        /\ \A i \in 1 .. last.cap : (last.dst[i] # Untouched) <=> (i <= last.written)
        /\ last.written = Cardinality({i \in 1 .. last.consumed : IsMapped(last.src[i])})
        /\ last.result \in {"InputEmpty", "OutputFull"} => last.written = last.consumed

\* A call that stopped on output exhaustion in the middle of the input.
C10_Witness ==
    /\ last.op = "decode_to_utf16"
    /\ last.result = "OutputFull"
    /\ last.consumed = 2
    /\ last.written = 2
    /\ Len(last.src) = 3
    /\ last.dst[2] # Untouched

\* ----------------------------------------------------- resumable streaming
\* A caller that keeps calling decode_to_utf16 with a non-empty buffer.
ProductiveCall ==
    /\ form = "utf16"
    /\ \E cap \in 1 .. MaxCap, last_chunk \in BOOLEAN : DecodeCall(cap, last_chunk)

FairSpec == Init /\ [][Next]_vars /\ WF_vars(ProductiveCall)

\* One decode call on the whole input with a buffer as long as the input.
WholeInputDecoded ==
    LET r == decode(SingleByteDecoder_new(encoding), "utf16", input,
                    BlankBuffer(Len(input)), TRUE)
    IN  SubSeq(r.dst, 1, r.written)

StreamPre == form = "utf16" /\ NoUnmapped(input)

StreamDone ==
    /\ last.op = "decode_to_utf16"
    /\ last.result = "InputEmpty"
    /\ total = Len(input)
    /\ out = WholeInputDecoded

\* C9: on input without unmapped bytes, repeated decode_to_utf16 calls on
\* the unread tail (with reset() and zero-capacity calls anywhere in
\* between) always have written a prefix of what one call on the whole
\* input writes, return InputEmpty only when all of it is written, and
\* reach that point after finitely many calls with non-empty buffers.
C9_ResumableStreaming ==
    /\ [](StreamPre =>
            /\ total <= Len(input)
            /\ out = SubSeq(WholeInputDecoded, 1, total)
            /\ (IsDecode(last) /\ last.result = "InputEmpty") => StreamDone)
    /\ (StreamPre => <>StreamDone)

\* A three-byte input fully decoded, its last byte by a call of its own
\* (so after at least one earlier call that stopped on OutputFull).
C9_Witness ==
    /\ StreamDone
    /\ Len(input) = 3
    /\ input[2] >= AsciiLimit
    /\ last.consumed = 1
    /\ last.src = <<input[3]>>

\* ------------------------------------------------- buffer sizing (decoder)
MaxUtf16BufferLength ==
    /\ \E n \in 0 .. UsizeMax :
          last' = [op |-> "max_utf16_buffer_length", n |-> n,
                   ret |-> max_utf16_buffer_length(decoder, n)]
    /\ UNCHANGED <<encoding, overflow_checks, decoder, encoder, form, input, total, out>>

MaxUtf8BufferLength ==
    /\ \E n \in 0 .. UsizeMax :
          last' = [op |-> "max_utf8_buffer_length", n |-> n,
                   ret |-> max_utf8_buffer_length(decoder, n)]
    /\ UNCHANGED <<encoding, overflow_checks, decoder, encoder, form, input, total, out>>

MaxUtf8BufferLengthWithReplacement ==
    /\ \E n \in 0 .. UsizeMax :
          last' = [op |-> "max_utf8_buffer_length_with_replacement", n |-> n,
                   ret |-> max_utf8_buffer_length_with_replacement(decoder, n)]
    /\ UNCHANGED <<encoding, overflow_checks, decoder, encoder, form, input, total, out>>

SizeOpOf(frm) ==
    IF frm = "utf16" THEN "max_utf16_buffer_length" ELSE "max_utf8_buffer_length"

\* The caller decodes the unread input into a buffer of the size it was just
\* told for that input's length.
DecodeSized ==
    /\ last.op = SizeOpOf(form)
    /\ last.n = Len(Unread)
    /\ last.ret # Panicked
    /\ \E last_chunk \in BOOLEAN : DecodeCall(last.ret, last_chunk)

SizeInit == InitWith(LongInputs, {"utf16", "utf8"}, BOOLEAN)

SizeNext ==
    \/ MaxUtf16BufferLength
    \/ MaxUtf8BufferLength
    \/ MaxUtf8BufferLengthWithReplacement
    \/ DecodeSized

SizeSpec == SizeInit /\ [][SizeNext]_vars

\* C3: a decode call into a destination of the capacity returned by
\* max_utf16_buffer_length / max_utf8_buffer_length for the input's length
\* never returns OutputFull.
C3_SizedBufferNeverFull ==
    (/\ IsDecode(last)
     /\ last.cap = IF form = "utf16"
                   THEN max_utf16_buffer_length(decoder, Len(last.src))
                   ELSE max_utf8_buffer_length(decoder, Len(last.src)))
    => last.result # "OutputFull"

\* C4: max_utf16_buffer_length(n) = n and both UTF-8 formulas = 3 * n, for
\* every n a usize holds.
C4_SizeFormulasExact ==
    /\ last.op = "max_utf16_buffer_length" => last.ret = last.n
    /\ last.op \in {"max_utf8_buffer_length", "max_utf8_buffer_length_with_replacement"}
          => last.ret = 3 * last.n

\* ------------------------------------------------------------ the encoder
max_buffer_length_from_utf16(self, u16_length) == 0

max_buffer_length_from_utf8(self, byte_length) == 0

max_buffer_length_from_utf16_with_replacement_if_no_unmappables(self, u16_length) == 0

max_buffer_length_from_utf8_with_replacement_if_no_unmappables(self, byte_length) == 0

\* (EncoderResult::InputEmpty, 0, 0): nothing is read, nothing is written.
encode_from_utf16(self, src, dst, last_chunk) ==
    [result |-> "InputEmpty", read |-> 0, written |-> 0, dst |-> dst]

encode_from_utf8(self, src, dst, last_chunk) ==
    [result |-> "InputEmpty", read |-> 0, written |-> 0, dst |-> dst]

\* The caller's text as &[u16]: one unit per BMP code point, a surrogate
\* pair above.
RECURSIVE utf16_units(_)
utf16_units(text) ==
    IF text = <<>> THEN <<>>
    ELSE LET c == Head(text)
         IN  (IF c < 65536 THEN <<c>>
              ELSE <<55296 + ((c - 65536) \div 1024), 56320 + ((c - 65536) % 1024)>>)
             \o utf16_units(Tail(text))

\* The caller's text as &str: one to four bytes per code point.
RECURSIVE utf8_bytes(_)
utf8_bytes(text) ==
    IF text = <<>> THEN <<>>
    ELSE LET c == Head(text)
         IN  (IF c < 128 THEN <<c>>
              ELSE IF c < 2048 THEN <<192 + (c \div 64), 128 + (c % 64)>>
              ELSE IF c < 65536
              THEN <<224 + (c \div 4096), 128 + ((c \div 64) % 64), 128 + (c % 64)>>
              ELSE <<240 + (c \div 262144), 128 + ((c \div 4096) % 64),
                     128 + ((c \div 64) % 64), 128 + (c % 64)>>)
             \o utf8_bytes(Tail(text))

\* U+0041, U+00A0 and U+20AC (in both tables), U+03A9 (Greek-like table
\* only), U+3042 and U+1F600 (in neither).
SampleCodePoints == {65, 160, 8364, 937, 12354, 128512}

\* The texts handed to the encoder: short samples, and what the decoder
\* has produced so far.
Texts == {<<>>} \cup {<<c>> : c \in SampleCodePoints} \cup {<<65, 12354>>}
            \cup (IF form = "utf16" THEN {out} ELSE {})

EncodeFromUtf16 ==
    /\ \E text \in Texts, cap \in 0 .. MaxCap, last_chunk \in BOOLEAN :
          LET src == utf16_units(text)
              r == encode_from_utf16(encoder, src, BlankBuffer(cap), last_chunk)
          IN  last' = [op |-> "encode_from_utf16", text |-> text, src |-> src,
                       cap |-> cap, result |-> r.result, read |-> r.read,
                       written |-> r.written, dst |-> r.dst]
    /\ UNCHANGED <<encoding, overflow_checks, decoder, encoder, form, input, total, out>>

EncodeFromUtf8 ==
    /\ \E text \in Texts, cap \in 0 .. MaxCap, last_chunk \in BOOLEAN :
          LET src == utf8_bytes(text)
              r == encode_from_utf8(encoder, src, BlankBuffer(cap), last_chunk)
          IN  last' = [op |-> "encode_from_utf8", text |-> text, src |-> src,
                       cap |-> cap, result |-> r.result, read |-> r.read,
                       written |-> r.written, dst |-> r.dst]
    /\ UNCHANGED <<encoding, overflow_checks, decoder, encoder, form, input, total, out>>

MaxBufferLengthFromUtf16 ==
    /\ \E n \in 0 .. MaxCap :
          last' = [op |-> "max_buffer_length_from_utf16", n |-> n,
                   ret |-> max_buffer_length_from_utf16(encoder, n)]
    /\ UNCHANGED <<encoding, overflow_checks, decoder, encoder, form, input, total, out>>

MaxBufferLengthFromUtf8 ==
    /\ \E n \in 0 .. MaxCap :
          last' = [op |-> "max_buffer_length_from_utf8", n |-> n,
                   ret |-> max_buffer_length_from_utf8(encoder, n)]
    /\ UNCHANGED <<encoding, overflow_checks, decoder, encoder, form, input, total, out>>

MaxBufferLengthFromUtf16WithReplacement ==
    /\ \E n \in 0 .. MaxCap :
          last' = [op |-> "max_buffer_length_from_utf16_with_replacement_if_no_unmappables",
                   n |-> n,
                   ret |-> max_buffer_length_from_utf16_with_replacement_if_no_unmappables(
                               encoder, n)]
    /\ UNCHANGED <<encoding, overflow_checks, decoder, encoder, form, input, total, out>>

MaxBufferLengthFromUtf8WithReplacement ==
    /\ \E n \in 0 .. MaxCap :
          last' = [op |-> "max_buffer_length_from_utf8_with_replacement_if_no_unmappables",
                   n |-> n,
                   ret |-> max_buffer_length_from_utf8_with_replacement_if_no_unmappables(
                               encoder, n)]
    /\ UNCHANGED <<encoding, overflow_checks, decoder, encoder, form, input, total, out>>

\* One byte is decoded, then text is encoded.
EncInit == InitWith(ByteInputs, {"utf16"}, {FALSE})

EncNext ==
    \/ DecodeToUtf16
    \/ EncodeFromUtf16
    \/ EncodeFromUtf8
    \/ MaxBufferLengthFromUtf16
    \/ MaxBufferLengthFromUtf8
    \/ MaxBufferLengthFromUtf16WithReplacement
    \/ MaxBufferLengthFromUtf8WithReplacement

EncSpec == EncInit /\ [][EncNext]_vars

IsEncode(call) == call.op \in {"encode_from_utf16", "encode_from_utf8"}

\* The lowest byte that decodes to code point c.
LowestByteFor(c) ==
    IF c < AsciiLimit THEN c
    ELSE CHOOSE b \in AsciiLimit .. 255 :
            /\ static_table(encoding)[b - AsciiLimit] = c
            /\ \A b2 \in AsciiLimit .. b - 1 : static_table(encoding)[b2 - AsciiLimit] # c

\* Code point c has no byte: it is not ASCII and no table entry holds it.
IsUnmappable(c) ==
    c >= AsciiLimit /\ \A i \in 0 .. TableLen - 1 : static_table(encoding)[i] # c

\* C6: encoding the code point that a mapped byte b decodes to, with room
\* for at least one byte, writes exactly one byte: b, or the lowest byte
\* with the same code point.
C6_RoundTrip ==
    (/\ IsEncode(last)
     /\ Len(input) = 1 /\ IsMapped(input[1])
     /\ out = <<CodePointOf(input[1])>>
     /\ last.text = out
     /\ last.cap >= 1)
    => /\ last.written = 1
       /\ last.dst[1] = LowestByteFor(out[1])

\* C7: an encode call on text holding a code point without a byte never
\* returns InputEmpty, and with room for every code point before it returns
\* Unmappable for the first such code point.
C7_UnmappableReported ==
    (IsEncode(last) /\ \E i \in 1 .. Len(last.text) : IsUnmappable(last.text[i]))
    => /\ last.result # "InputEmpty"
       /\ last.cap >= Len(last.text) => last.result = "Unmappable"

\* C8: max_buffer_length_from_utf16(n) = n and max_buffer_length_from_utf8(n) = n.
C8_EncoderSizeFormulas ==
    last.op \in {"max_buffer_length_from_utf16", "max_buffer_length_from_utf8"}
    => last.ret = last.n

====
